---- MODULE Spec2Model ----
(***************************************************************************)
(* Cache-aside layer of the vacations service: the employee and vacation   *)
(* HTTP handlers (webapp/api), the employee accessor (webapp/crud) and the *)
(* key builder (webapp/cache), over a Redis store and a relational         *)
(* source-of-record.  One action per await point of each handler.          *)
(***************************************************************************)
EXTENDS Integers, Sequences, FiniteSets, TLC

\* ------------------------------------------------------------------ bounds
MaxEmployeeId == 2
MaxVacationId == 2
MaxRequests == 4
MaxInterleaved == 2
MaxKeyInt == 10
MaxAfterMalformed == 2
MaxTimedRequests == 3

EmployeeIds == 1..MaxEmployeeId
VacationIds == 1..MaxVacationId
Tasks == {"r1", "r2"}
Names == {"a", "b"}
\* Optional[bool]: None, True, False
Approvals == {"none", "true", "false"}
\* (offset, limit) pairs the clients ask for
Pages == {<<0, 1>>}

VARIABLES
  employees,     \* table employee: id -> name
  employee_seq,  \* last primary key the employee table assigned
  vacations,     \* table vacation: id -> [employee_id, approved]
  vacation_seq,  \* last primary key the vacation table assigned
  redis,         \* key -> [t, v, h, ex]: a string value or a hash; ex: seconds to live, 0 for none
  redis_up,      \* whether the store answers (an outage lasts the whole run)
  task,          \* per request slot: the handler's position and locals
  last,          \* history: the last completed request or store expiry
  awaiting,      \* history: list keys populated before a vacation mutation, not read since
  budget         \* number of requests still to be accepted in this run

vars == <<employees, employee_seq, vacations, vacation_seq, redis, redis_up,
          task, last, awaiting, budget>>
db == <<employees, employee_seq, vacations, vacation_seq>>

\* ------------------------------------------------------------ Python values
PyNone == [kind |-> "None", val |-> <<>>]
PyTrue == [kind |-> "True", val |-> <<>>]
PyObj(x) == [kind |-> "obj", val |-> <<x>>]
PyList(s) == [kind |-> "list", val |-> s]

\* orjson.dumps / model_dump_json: a non-empty byte string holding the JSON text
dumps(v) == [kind |-> "bytes", val |-> <<v>>]
\* bytes that are not a JSON text
Malformed == [kind |-> "bytes", val |-> <<>>]
\* orjson.loads: the decoded value, or JSONDecodeError for malformed bytes
loads(b) ==
  IF Len(b.val) = 1 THEN b.val[1] ELSE [kind |-> "JSONDecodeError", val |-> <<>>]

\* Python truth value of what the handlers test with `if`
Truthy(v) ==
  CASE v.kind = "None" -> FALSE
    [] v.kind = "list" -> Len(v.val) > 0
    [] OTHER -> TRUE

\* str() of an Optional[bool] inside an f-string
StrBool(b) ==
  CASE b = "none" -> "None"
    [] b = "true" -> "True"
    [] b = "false" -> "False"

\* ------------------------------------------------------------- key builder
PREFIX == "ns"

MAIN_KEY == PREFIX \o ":vacations"

get_employee_cache_key(employee_id) ==
  PREFIX \o ":employee_cache:" \o ToString(employee_id)

get_vacation_cache_key(vacation_id) ==
  PREFIX \o ":vacation_cache:" \o ToString(vacation_id)

\* mutant: the list key with skip and limit run together
get_vacation_list_cache_key_unseparated(approved, skip, limit) ==
  PREFIX \o ":vacations:" \o StrBool(approved) \o ":" \o ToString(skip)
         \o ToString(limit)

get_vacation_list_cache_key(approved, skip, limit) ==
  PREFIX \o ":vacations:" \o StrBool(approved) \o ":" \o ToString(skip)
         \o ":" \o ToString(limit)

get_vacation_pending_list_cache_key(skip, limit) ==
  PREFIX \o ":pending:vacations:" \o ToString(skip) \o ":" \o ToString(limit)

employee_list_cache_key(skip, limit) ==
  "employee_" \o ToString(skip) \o "_" \o ToString(limit)

ListKeys ==
  {get_vacation_list_cache_key(a, pg[1], pg[2]) : a \in Approvals, pg \in Pages}
  \cup {get_vacation_pending_list_cache_key(pg[1], pg[2]) : pg \in Pages}

\* ------------------------------------------------------------------- store
\* settings.CACHE_EXPIRATION_TIME, in ticks of the store's clock
CACHE_EXPIRATION_TIME == 2

NoEntry == [x \in {} |-> 0]

\* GET key
RedisGet(key) ==
  IF key \in DOMAIN redis /\ redis[key].t = "string" THEN redis[key].v ELSE PyNone

\* SET key value EX ttl
RedisSet(key, value) ==
  [k \in DOMAIN redis \cup {key} |->
     IF k = key THEN [t |-> "string", v |-> value, h |-> NoEntry, ex |-> CACHE_EXPIRATION_TIME]
     ELSE redis[k]]

\* mutant: a delete that leaves a marker when the key was not there
RedisDelete_toggle(key) ==
  IF key \in DOMAIN redis
  THEN [k \in DOMAIN redis \ {key} |-> redis[k]]
  ELSE [k \in DOMAIN redis \cup {key} |->
          IF k = key THEN [t |-> "string", v |-> PyNone, h |-> NoEntry, ex |-> 0]
          ELSE redis[k]]

\* DEL key
RedisDelete(key) == [k \in DOMAIN redis \ {key} |-> redis[k]]

\* HSET key field value: the key's TTL, if any, is left as it is; a new key has none
RedisHSet(key, field, value) ==
  LET old == IF key \in DOMAIN redis THEN redis[key].h ELSE NoEntry
      oex == IF key \in DOMAIN redis THEN redis[key].ex ELSE 0
      new == [f \in DOMAIN old \cup {field} |-> IF f = field THEN value ELSE old[f]]
  IN [k \in DOMAIN redis \cup {key} |->
        IF k = key THEN [t |-> "hash", v |-> PyNone, h |-> new, ex |-> oex]
        ELSE redis[k]]

\* mutant: EXPIRE key ttl NX, which leaves a running TTL as it is
RedisExpire_nx(key) ==
  [k \in DOMAIN redis |->
     IF k = key /\ redis[k].ex = 0
     THEN [redis[k] EXCEPT !.ex = CACHE_EXPIRATION_TIME]
     ELSE redis[k]]

\* EXPIRE key ttl
RedisExpire(key) ==
  [k \in DOMAIN redis |-> IF k = key THEN [redis[k] EXCEPT !.ex = CACHE_EXPIRATION_TIME] ELSE redis[k]]

\* ------------------------------------------------------- source of record
Min(a, b) == IF a <= b THEN a ELSE b

RECURSIVE SortedSeq(_)
SortedSeq(S) ==
  IF S = {} THEN <<>>
  ELSE LET m == CHOOSE x \in S : \A y \in S : x <= y
       IN <<m>> \o SortedSeq(S \ {m})

\* .offset(skip).limit(limit)
Page(s, skip, limit) ==
  [i \in 1..(Min(Len(s), skip + limit) - skip) |-> s[i + skip]]

VacationIn(vs, v) ==
  [id |-> v, employee_id |-> vs[v].employee_id, approved |-> vs[v].approved]

VacationRows(vs, S) ==
  LET ids == SortedSeq(S) IN [i \in 1..Len(ids) |-> VacationIn(vs, ids[i])]

\* Employee with selectinload(Employee.vacations)
EmployeeIn(es, vs, e) ==
  [id |-> e, name |-> es[e],
   vacations |-> VacationRows(vs, {v \in DOMAIN vs : vs[v].employee_id = e})]

\* crud.employee.get_employee: model_validate(None) raises
get_employee(employee_id) ==
  IF employee_id \in DOMAIN employees
  THEN PyObj(EmployeeIn(employees, vacations, employee_id))
  ELSE [kind |-> "ValidationError", val |-> <<>>]

\* crud.employee.get_employees
get_employees(skip, limit) ==
  LET ids == Page(SortedSeq(DOMAIN employees), skip, limit)
  IN PyList([i \in 1..Len(ids) |-> EmployeeIn(employees, vacations, ids[i])])

\* crud.employee.get_vacations_for_employee
get_vacations_for_employee(employee_id, skip, limit) ==
  PyList(Page(VacationRows(vacations,
                {v \in DOMAIN vacations : vacations[v].employee_id = employee_id}),
              skip, limit))

\* crud.vacation.get_vacation
get_vacation(vacation_id) ==
  IF vacation_id \in DOMAIN vacations
  THEN PyObj(VacationIn(vacations, vacation_id))
  ELSE PyNone

\* crud.vacation.get_vacations
get_vacations(approved, skip, limit) ==
  PyList(Page(VacationRows(vacations,
                {v \in DOMAIN vacations :
                   approved = "none" \/ vacations[v].approved = approved}),
              skip, limit))

\* crud.vacation.get_pending_vacations
get_pending_vacations(skip, limit) ==
  PyList(Page(VacationRows(vacations,
                {v \in DOMAIN vacations : vacations[v].approved = "none"}),
              skip, limit))

\* ------------------------------------------------------------------- tasks
NoArg == [id |-> 0, name |-> "", approved |-> "", skip |-> 0, limit |-> 0]
NoEvent == [op |-> "", key |-> "", out |-> "", source |-> ""]

Idle ==
  [op |-> "", pc |-> "idle", arg |-> NoArg, key |-> "", local |-> PyNone,
   out |-> "", result |-> PyNone, source |-> "", sets |-> 0,
   must_miss |-> FALSE]

InFlight(p) == task[p].pc \notin {"idle", "done"}

Free(p) == task[p].pc \in {"idle", "done"} /\ budget > 0

At(p, op, pc) == task[p].op = op /\ task[p].pc = pc

\* a request enters handler op
Enter(op, arg, key) ==
  [Idle EXCEPT !.op = op, !.pc = "run", !.arg = arg, !.key = key,
               !.must_miss = key \in awaiting]

\* return value
Return(t, v) == [t EXCEPT !.pc = "done", !.out = "return", !.result = v]

\* raise exc
Raise(t, exc) == [t EXCEPT !.pc = "done", !.out = exc]

\* return orjson.loads(cached): the decoder's error is not caught
ReturnCached(t, cached) ==
  IF loads(cached).kind = "JSONDecodeError"
  THEN Raise([t EXCEPT !.source = "cache"], "JSONDecodeError")
  ELSE Return([t EXCEPT !.source = "cache"], loads(cached))

Event(t) == [op |-> t.op, key |-> t.key, out |-> t.out, source |-> t.source]

Finish(p, t) ==
  /\ task' = [task EXCEPT ![p] = t]
  /\ last' = Event(t)

Continue(p, t) ==
  /\ task' = [task EXCEPT ![p] = t]
  /\ UNCHANGED last

Start ==
  /\ employees = (1 :> "a")
  /\ employee_seq = 1
  /\ vacations = (1 :> [employee_id |-> 1, approved |-> "none"])
  /\ vacation_seq = 1
  /\ redis = NoEntry
  /\ redis_up \in BOOLEAN
  /\ task = [p \in Tasks |-> Idle]
  /\ last = NoEvent
  /\ awaiting = {}

\* ------------------------------------------------ crud.employee mutations
\* create_employee: session.add, commit, refresh
create_employee(name) == (employee_seq + 1 :> name) @@ employees

\* update_employee: setattr for each item of update_data, commit
update_employee(employee_id, name) ==
  IF employee_id \in DOMAIN employees
  THEN [employees EXCEPT ![employee_id] = name]
  ELSE employees

\* delete_employee: session.delete(employee), commit
delete_employee(employee_id) ==
  [e \in DOMAIN employees \ {employee_id} |-> employees[e]]

\* the vacation rows that go with a deleted employee (owned by it)
orphans_removed(employee_id) ==
  [v \in {w \in DOMAIN vacations : vacations[w].employee_id # employee_id}
     |-> vacations[v]]

\* -------------------------------------------------------- employee handlers
create_employee_endpoint(p) ==
  /\ Free(p)
  /\ employee_seq < MaxEmployeeId
  /\ \E name \in Names :
       LET id == employee_seq + 1
           t == Enter("create_employee_endpoint", [NoArg EXCEPT !.id = id, !.name = name], "")
       IN /\ employees' = create_employee(name)
          /\ employee_seq' = id
          /\ Finish(p, Return(t, PyObj([id |-> id, name |-> name])))
  /\ budget' = budget - 1
  /\ UNCHANGED <<vacations, vacation_seq, redis, redis_up, awaiting>>

get_employees_endpoint_get(p) ==
  /\ Free(p)
  /\ \E pg \in Pages :
       LET key == employee_list_cache_key(pg[1], pg[2])
           t == Enter("get_employees_endpoint",
                      [NoArg EXCEPT !.skip = pg[1], !.limit = pg[2]], key)
           cached_data == RedisGet(key)
       IN IF ~redis_up THEN Finish(p, Raise(t, "RedisError"))
          ELSE IF Truthy(cached_data)
          THEN Finish(p, ReturnCached(t, cached_data))
          ELSE Continue(p, [t EXCEPT !.pc = "fetch"])
  /\ budget' = budget - 1
  /\ UNCHANGED <<db, redis, redis_up, awaiting>>

get_employees_endpoint_fetch(p) ==
  /\ At(p, "get_employees_endpoint", "fetch")
  /\ Continue(p, [task[p] EXCEPT !.pc = "set", !.source = "db",
                    !.local = get_employees(task[p].arg.skip, task[p].arg.limit)])
  /\ UNCHANGED <<db, redis, redis_up, awaiting, budget>>

\* mutant: the populate as SET NX, failing the request that comes second
get_employees_endpoint_set_nx(p) ==
  /\ At(p, "get_employees_endpoint", "set")
  /\ IF ~redis_up
     THEN Finish(p, Raise(task[p], "RedisError")) /\ UNCHANGED redis
     ELSE IF task[p].key \in DOMAIN redis
     THEN Finish(p, Raise(task[p], "Conflict")) /\ UNCHANGED redis
     ELSE /\ redis' = RedisSet(task[p].key, dumps(task[p].local))
          /\ Finish(p, Return([task[p] EXCEPT !.sets = @ + 1], task[p].local))
  /\ UNCHANGED <<db, redis_up, awaiting, budget>>

get_employees_endpoint_set(p) ==
  /\ At(p, "get_employees_endpoint", "set")
  /\ IF ~redis_up
     THEN Finish(p, Raise(task[p], "RedisError")) /\ UNCHANGED redis
     ELSE /\ redis' = RedisSet(task[p].key, dumps(task[p].local))
          /\ Finish(p, Return([task[p] EXCEPT !.sets = @ + 1], task[p].local))
  /\ UNCHANGED <<db, redis_up, awaiting, budget>>

\* mutant: the patch handler without its redis.delete
patch_employee_endpoint_keeps_key(p) ==
  /\ Free(p)
  /\ \E id \in EmployeeIds, name \in Names :
       LET key == get_employee_cache_key(id)
           t == Enter("patch_employee_endpoint", [NoArg EXCEPT !.id = id, !.name = name], key)
       IN IF ~redis_up
          THEN Finish(p, Raise(t, "RedisError"))
          ELSE Continue(p, [t EXCEPT !.pc = "update"])
  /\ budget' = budget - 1
  /\ UNCHANGED <<db, redis, redis_up, awaiting>>

\* mutant: the patch handler dropping the employee lists as well
patch_employee_endpoint_delete_lists(p) ==
  /\ Free(p)
  /\ \E id \in EmployeeIds, name \in Names :
       LET key == get_employee_cache_key(id)
           t == Enter("patch_employee_endpoint", [NoArg EXCEPT !.id = id, !.name = name], key)
       IN IF ~redis_up
          THEN Finish(p, Raise(t, "RedisError")) /\ UNCHANGED redis
          ELSE /\ redis' = [k \in DOMAIN redis \
                                 ({key} \cup {employee_list_cache_key(pg[1], pg[2]) : pg \in Pages})
                               |-> redis[k]]
               /\ Continue(p, [t EXCEPT !.pc = "update"])
  /\ budget' = budget - 1
  /\ UNCHANGED <<db, redis_up, awaiting>>

patch_employee_endpoint_delete(p) ==
  /\ Free(p)
  /\ \E id \in EmployeeIds, name \in Names :
       LET key == get_employee_cache_key(id)
           t == Enter("patch_employee_endpoint", [NoArg EXCEPT !.id = id, !.name = name], key)
       IN IF ~redis_up
          THEN Finish(p, Raise(t, "RedisError")) /\ UNCHANGED redis
          ELSE /\ redis' = RedisDelete(key)
               /\ Continue(p, [t EXCEPT !.pc = "update"])
  /\ budget' = budget - 1
  /\ UNCHANGED <<db, redis_up, awaiting>>

\* mutant: the patch handler writing the updated row through to the store
patch_employee_endpoint_update_write_through(p) ==
  /\ At(p, "patch_employee_endpoint", "update")
  /\ employees' = update_employee(task[p].arg.id, task[p].arg.name)
  /\ IF task[p].arg.id \in DOMAIN employees
     THEN /\ redis' = RedisSet(task[p].key,
                               dumps(PyObj(EmployeeIn(employees', vacations, task[p].arg.id))))
          /\ Finish(p, Return(task[p],
                              PyObj(EmployeeIn(employees', vacations, task[p].arg.id))))
     ELSE /\ UNCHANGED redis
          /\ Finish(p, Return(task[p], PyNone))
  /\ UNCHANGED <<employee_seq, vacations, vacation_seq, redis_up, awaiting, budget>>

patch_employee_endpoint_update(p) ==
  /\ At(p, "patch_employee_endpoint", "update")
  /\ employees' = update_employee(task[p].arg.id, task[p].arg.name)
  /\ Finish(p, Return(task[p],
                      IF task[p].arg.id \in DOMAIN employees
                      THEN PyObj(EmployeeIn(employees', vacations, task[p].arg.id))
                      ELSE PyNone))
  /\ UNCHANGED <<employee_seq, vacations, vacation_seq, redis, redis_up, awaiting, budget>>

\* mutant: the sub-list taken from the employee's scalar entry when there is one
get_vacations_for_employee_endpoint_cached(p) ==
  /\ Free(p)
  /\ \E id \in EmployeeIds, pg \in Pages :
       LET t == Enter("get_vacations_for_employee_endpoint",
                      [NoArg EXCEPT !.id = id, !.skip = pg[1], !.limit = pg[2]], "")
           cached_data == RedisGet(get_employee_cache_key(id))
       IN IF redis_up /\ Truthy(cached_data)
          THEN Finish(p, Return([t EXCEPT !.source = "cache"],
                                PyList(Page(loads(cached_data).val[1].vacations,
                                            pg[1], pg[2]))))
          ELSE Finish(p, Return([t EXCEPT !.source = "db"],
                                get_vacations_for_employee(id, pg[1], pg[2])))
  /\ budget' = budget - 1
  /\ UNCHANGED <<db, redis, redis_up, awaiting>>

get_vacations_for_employee_endpoint(p) ==
  /\ Free(p)
  /\ \E id \in EmployeeIds, pg \in Pages :
       LET t == Enter("get_vacations_for_employee_endpoint",
                      [NoArg EXCEPT !.id = id, !.skip = pg[1], !.limit = pg[2]], "")
       IN Finish(p, Return([t EXCEPT !.source = "db"],
                           get_vacations_for_employee(id, pg[1], pg[2])))
  /\ budget' = budget - 1
  /\ UNCHANGED <<db, redis, redis_up, awaiting>>

get_employee_endpoint_get(p) ==
  /\ Free(p)
  /\ \E id \in EmployeeIds :
       LET key == get_employee_cache_key(id)
           t == Enter("get_employee_endpoint", [NoArg EXCEPT !.id = id], key)
           cached_data == RedisGet(key)
       IN IF ~redis_up THEN Finish(p, Raise(t, "RedisError"))
          ELSE IF Truthy(cached_data)
          THEN Finish(p, ReturnCached(t, cached_data))
          ELSE Continue(p, [t EXCEPT !.pc = "fetch"])
  /\ budget' = budget - 1
  /\ UNCHANGED <<db, redis, redis_up, awaiting>>

get_employee_endpoint_fetch(p) ==
  /\ At(p, "get_employee_endpoint", "fetch")
  /\ LET employee == get_employee(task[p].arg.id)
         t == [task[p] EXCEPT !.source = "db", !.local = employee]
     IN IF employee.kind = "ValidationError" THEN Finish(p, Raise(t, "ValidationError"))
        ELSE IF ~Truthy(employee) THEN Finish(p, Raise(t, "HTTP404"))
        ELSE Continue(p, [t EXCEPT !.pc = "set"])
  /\ UNCHANGED <<db, redis, redis_up, awaiting, budget>>

\* mutant: the read handler returning without its redis.set
get_employee_endpoint_no_set(p) ==
  /\ At(p, "get_employee_endpoint", "set")
  /\ IF ~redis_up
     THEN Finish(p, Raise(task[p], "RedisError"))
     ELSE Finish(p, Return(task[p], task[p].local))
  /\ UNCHANGED <<db, redis, redis_up, awaiting, budget>>

get_employee_endpoint_set(p) ==
  /\ At(p, "get_employee_endpoint", "set")
  /\ IF ~redis_up
     THEN Finish(p, Raise(task[p], "RedisError")) /\ UNCHANGED redis
     ELSE /\ redis' = RedisSet(task[p].key, dumps(task[p].local))
          /\ Finish(p, Return([task[p] EXCEPT !.sets = @ + 1], task[p].local))
  /\ UNCHANGED <<db, redis_up, awaiting, budget>>

\* mutant: the delete handler without its redis.delete
delete_employee_endpoint_keeps_key(p) ==
  /\ Free(p)
  /\ \E id \in EmployeeIds :
       LET key == get_employee_cache_key(id)
           t == Enter("delete_employee_endpoint", [NoArg EXCEPT !.id = id], key)
       IN IF ~redis_up
          THEN Finish(p, Raise(t, "RedisError"))
          ELSE Continue(p, [t EXCEPT !.pc = "delete"])
  /\ budget' = budget - 1
  /\ UNCHANGED <<db, redis, redis_up, awaiting>>

delete_employee_endpoint_delete(p) ==
  /\ Free(p)
  /\ \E id \in EmployeeIds :
       LET key == get_employee_cache_key(id)
           t == Enter("delete_employee_endpoint", [NoArg EXCEPT !.id = id], key)
       IN IF ~redis_up
          THEN Finish(p, Raise(t, "RedisError")) /\ UNCHANGED redis
          ELSE /\ redis' = RedisDelete(key)
               /\ Continue(p, [t EXCEPT !.pc = "delete"])
  /\ budget' = budget - 1
  /\ UNCHANGED <<db, redis_up, awaiting>>

delete_employee_endpoint_db(p) ==
  /\ At(p, "delete_employee_endpoint", "delete")
  /\ employees' = delete_employee(task[p].arg.id)
  /\ vacations' = orphans_removed(task[p].arg.id)
  /\ LET employee == PyTrue
     IN IF ~Truthy(employee) THEN Finish(p, Raise(task[p], "HTTP404"))
        ELSE Finish(p, Return(task[p], PyNone))
  /\ UNCHANGED <<employee_seq, vacation_seq, redis, redis_up, awaiting, budget>>

\* ------------------------------------------------ crud.vacation mutations
create_vacation(employee_id, approved) ==
  (vacation_seq + 1 :> [employee_id |-> employee_id, approved |-> approved]) @@ vacations

update_vacation_approval(vacation_id, approved) ==
  IF vacation_id \in DOMAIN vacations
  THEN [vacations EXCEPT ![vacation_id].approved = approved]
  ELSE vacations

delete_vacation(vacation_id) ==
  [v \in DOMAIN vacations \ {vacation_id} |-> vacations[v]]

\* history: the list and pending-list members the bucket holds now
BucketListMembers ==
  IF MAIN_KEY \in DOMAIN redis THEN DOMAIN redis[MAIN_KEY].h \cap ListKeys ELSE {}

\* -------------------------------------------------------- vacation handlers
\* HGET key field
RedisHGet(key, field) ==
  IF key \in DOMAIN redis /\ redis[key].t = "hash" /\ field \in DOMAIN redis[key].h
  THEN redis[key].h[field]
  ELSE PyNone

\* mutant: the list handler looking its key up where the populate puts it
get_vacations_endpoint_hget(p) ==
  /\ Free(p)
  /\ \E approved \in Approvals, pg \in Pages :
       LET cache_key == get_vacation_list_cache_key(approved, pg[1], pg[2])
           t == Enter("get_vacations_endpoint",
                      [NoArg EXCEPT !.approved = approved, !.skip = pg[1], !.limit = pg[2]],
                      cache_key)
           cached_data == RedisHGet(MAIN_KEY, cache_key)
       IN /\ IF ~redis_up THEN Finish(p, Raise(t, "RedisError"))
             ELSE IF Truthy(cached_data)
             THEN Finish(p, ReturnCached(t, cached_data))
             ELSE Continue(p, [t EXCEPT !.pc = "fetch"])
          /\ awaiting' = awaiting \ {cache_key}
  /\ budget' = budget - 1
  /\ UNCHANGED <<db, redis, redis_up>>

get_vacations_endpoint_get(p) ==
  /\ Free(p)
  /\ \E approved \in Approvals, pg \in Pages :
       LET cache_key == get_vacation_list_cache_key(approved, pg[1], pg[2])
           t == Enter("get_vacations_endpoint",
                      [NoArg EXCEPT !.approved = approved, !.skip = pg[1], !.limit = pg[2]],
                      cache_key)
           cached_data == RedisGet(cache_key)
       IN /\ IF ~redis_up THEN Finish(p, Raise(t, "RedisError"))
             ELSE IF Truthy(cached_data)
             THEN Finish(p, ReturnCached(t, cached_data))
             ELSE Continue(p, [t EXCEPT !.pc = "fetch"])
          /\ awaiting' = awaiting \ {cache_key}
  /\ budget' = budget - 1
  /\ UNCHANGED <<db, redis, redis_up>>

get_vacations_endpoint_fetch(p) ==
  /\ At(p, "get_vacations_endpoint", "fetch")
  /\ Continue(p, [task[p] EXCEPT !.pc = "hset", !.source = "db",
                    !.local = get_vacations(task[p].arg.approved, task[p].arg.skip,
                                            task[p].arg.limit)])
  /\ UNCHANGED <<db, redis, redis_up, awaiting, budget>>

get_vacations_endpoint_hset(p) ==
  /\ At(p, "get_vacations_endpoint", "hset")
  /\ IF ~redis_up
     THEN Finish(p, Raise(task[p], "RedisError")) /\ UNCHANGED redis
     ELSE /\ redis' = RedisHSet(MAIN_KEY, task[p].key, dumps(task[p].local))
          /\ Continue(p, [task[p] EXCEPT !.pc = "expire", !.sets = @ + 1])
  /\ UNCHANGED <<db, redis_up, awaiting, budget>>

\* mutant: the list handler returning without its redis.expire
get_vacations_endpoint_no_expire(p) ==
  /\ At(p, "get_vacations_endpoint", "expire")
  /\ IF ~redis_up
     THEN Finish(p, Raise(task[p], "RedisError"))
     ELSE Finish(p, Return(task[p], task[p].local))
  /\ UNCHANGED <<db, redis, redis_up, awaiting, budget>>

get_vacations_endpoint_expire(p) ==
  /\ At(p, "get_vacations_endpoint", "expire")
  /\ IF ~redis_up
     THEN Finish(p, Raise(task[p], "RedisError")) /\ UNCHANGED redis
     ELSE /\ redis' = RedisExpire(MAIN_KEY)
          /\ Finish(p, Return(task[p], task[p].local))
  /\ UNCHANGED <<db, redis_up, awaiting, budget>>

get_pending_vacations_endpoint_get(p) ==
  /\ Free(p)
  /\ \E pg \in Pages :
       LET cache_key == get_vacation_pending_list_cache_key(pg[1], pg[2])
           t == Enter("get_pending_vacations_endpoint",
                      [NoArg EXCEPT !.skip = pg[1], !.limit = pg[2]], cache_key)
           cached_data == RedisGet(cache_key)
       IN /\ IF ~redis_up THEN Finish(p, Raise(t, "RedisError"))
             ELSE IF Truthy(cached_data)
             THEN Finish(p, ReturnCached(t, cached_data))
             ELSE Continue(p, [t EXCEPT !.pc = "fetch"])
          /\ awaiting' = awaiting \ {cache_key}
  /\ budget' = budget - 1
  /\ UNCHANGED <<db, redis, redis_up>>

get_pending_vacations_endpoint_fetch(p) ==
  /\ At(p, "get_pending_vacations_endpoint", "fetch")
  /\ Continue(p, [task[p] EXCEPT !.pc = "hset", !.source = "db",
                    !.local = get_pending_vacations(task[p].arg.skip, task[p].arg.limit)])
  /\ UNCHANGED <<db, redis, redis_up, awaiting, budget>>

get_pending_vacations_endpoint_hset(p) ==
  /\ At(p, "get_pending_vacations_endpoint", "hset")
  /\ IF ~redis_up
     THEN Finish(p, Raise(task[p], "RedisError")) /\ UNCHANGED redis
     ELSE /\ redis' = RedisHSet(MAIN_KEY, task[p].key, dumps(task[p].local))
          /\ Continue(p, [task[p] EXCEPT !.pc = "expire", !.sets = @ + 1])
  /\ UNCHANGED <<db, redis_up, awaiting, budget>>

get_pending_vacations_endpoint_expire(p) ==
  /\ At(p, "get_pending_vacations_endpoint", "expire")
  /\ IF ~redis_up
     THEN Finish(p, Raise(task[p], "RedisError")) /\ UNCHANGED redis
     ELSE /\ redis' = RedisExpire(MAIN_KEY)
          /\ Finish(p, Return(task[p], task[p].local))
  /\ UNCHANGED <<db, redis_up, awaiting, budget>>

get_vacation_endpoint_get(p) ==
  /\ Free(p)
  /\ \E id \in VacationIds :
       LET cache_key == get_vacation_cache_key(id)
           t == Enter("get_vacation_endpoint", [NoArg EXCEPT !.id = id], cache_key)
           cached_vacation == RedisGet(cache_key)
       IN IF ~redis_up THEN Finish(p, Raise(t, "RedisError"))
          ELSE IF Truthy(cached_vacation)
          THEN Finish(p, ReturnCached(t, cached_vacation))
          ELSE Continue(p, [t EXCEPT !.pc = "fetch"])
  /\ budget' = budget - 1
  /\ UNCHANGED <<db, redis, redis_up, awaiting>>

\* mutant: the read handler without its `if not vacation` check
get_vacation_endpoint_fetch_unchecked(p) ==
  /\ At(p, "get_vacation_endpoint", "fetch")
  /\ Continue(p, [task[p] EXCEPT !.pc = "hset", !.source = "db",
                    !.local = get_vacation(task[p].arg.id)])
  /\ UNCHANGED <<db, redis, redis_up, awaiting, budget>>

get_vacation_endpoint_fetch(p) ==
  /\ At(p, "get_vacation_endpoint", "fetch")
  /\ LET vacation == get_vacation(task[p].arg.id)
         t == [task[p] EXCEPT !.source = "db", !.local = vacation]
     IN IF ~Truthy(vacation) THEN Finish(p, Raise(t, "HTTP404"))
        ELSE Continue(p, [t EXCEPT !.pc = "hset"])
  /\ UNCHANGED <<db, redis, redis_up, awaiting, budget>>

\* mutant: the by-id handler populating the key it looks up
get_vacation_endpoint_set_scalar(p) ==
  /\ At(p, "get_vacation_endpoint", "hset")
  /\ IF ~redis_up
     THEN Finish(p, Raise(task[p], "RedisError")) /\ UNCHANGED redis
     ELSE /\ redis' = RedisSet(task[p].key, dumps(task[p].local))
          /\ Continue(p, [task[p] EXCEPT !.pc = "expire", !.sets = @ + 1])
  /\ UNCHANGED <<db, redis_up, awaiting, budget>>

get_vacation_endpoint_hset(p) ==
  /\ At(p, "get_vacation_endpoint", "hset")
  /\ IF ~redis_up
     THEN Finish(p, Raise(task[p], "RedisError")) /\ UNCHANGED redis
     ELSE /\ redis' = RedisHSet(MAIN_KEY, task[p].key, dumps(task[p].local))
          /\ Continue(p, [task[p] EXCEPT !.pc = "expire", !.sets = @ + 1])
  /\ UNCHANGED <<db, redis_up, awaiting, budget>>

get_vacation_endpoint_expire(p) ==
  /\ At(p, "get_vacation_endpoint", "expire")
  /\ IF ~redis_up
     THEN Finish(p, Raise(task[p], "RedisError")) /\ UNCHANGED redis
     ELSE /\ redis' = RedisExpire(MAIN_KEY)
          /\ Finish(p, Return(task[p], task[p].local))
  /\ UNCHANGED <<db, redis_up, awaiting, budget>>

create_vacation_endpoint_create(p) ==
  /\ Free(p)
  /\ vacation_seq < MaxVacationId
  /\ \E employee_id \in DOMAIN employees, approved \in Approvals :
       LET id == vacation_seq + 1
           t == Enter("create_vacation_endpoint",
                      [NoArg EXCEPT !.id = id, !.approved = approved], "")
       IN /\ vacations' = create_vacation(employee_id, approved)
          /\ vacation_seq' = id
          /\ Continue(p, [t EXCEPT !.pc = "delete",
                            !.local = PyObj(VacationIn(vacations', id))])
  /\ awaiting' = awaiting \cup BucketListMembers
  /\ budget' = budget - 1
  /\ UNCHANGED <<employees, employee_seq, redis, redis_up>>

\* mutant: the create handler dropping the owner's employee entry as well
create_vacation_endpoint_delete_owner(p) ==
  /\ At(p, "create_vacation_endpoint", "delete")
  /\ IF ~redis_up
     THEN Finish(p, Raise(task[p], "RedisError")) /\ UNCHANGED redis
     ELSE /\ redis' = [k \in DOMAIN redis \
                            {MAIN_KEY,
                             get_employee_cache_key(task[p].local.val[1].employee_id)}
                          |-> redis[k]]
          /\ Finish(p, Return(task[p], task[p].local))
  /\ UNCHANGED <<db, redis_up, awaiting, budget>>

create_vacation_endpoint_delete(p) ==
  /\ At(p, "create_vacation_endpoint", "delete")
  /\ IF ~redis_up
     THEN Finish(p, Raise(task[p], "RedisError")) /\ UNCHANGED redis
     ELSE /\ redis' = RedisDelete(MAIN_KEY)
          /\ Finish(p, Return(task[p], task[p].local))
  /\ UNCHANGED <<db, redis_up, awaiting, budget>>

vacation_request_endpoint_create(p) ==
  /\ Free(p)
  /\ vacation_seq < MaxVacationId
  /\ \E current_user \in DOMAIN employees :
       LET id == vacation_seq + 1
           t == Enter("vacation_request_endpoint",
                      [NoArg EXCEPT !.id = id, !.approved = "none"], "")
       IN /\ vacations' = create_vacation(current_user, "none")
          /\ vacation_seq' = id
          /\ Continue(p, [t EXCEPT !.pc = "delete",
                            !.local = PyObj(VacationIn(vacations', id))])
  /\ awaiting' = awaiting \cup BucketListMembers
  /\ budget' = budget - 1
  /\ UNCHANGED <<employees, employee_seq, redis, redis_up>>

vacation_request_endpoint_delete(p) ==
  /\ At(p, "vacation_request_endpoint", "delete")
  /\ IF ~redis_up
     THEN Finish(p, Raise(task[p], "RedisError")) /\ UNCHANGED redis
     ELSE /\ redis' = RedisDelete(MAIN_KEY)
          /\ Finish(p, Return(task[p], task[p].local))
  /\ UNCHANGED <<db, redis_up, awaiting, budget>>

update_vacation_approval_endpoint_update(p) ==
  /\ Free(p)
  /\ \E id \in VacationIds, approved \in {"true", "false"} :
       LET t == Enter("update_vacation_approval_endpoint",
                      [NoArg EXCEPT !.id = id, !.approved = approved],
                      get_vacation_cache_key(id))
       IN /\ vacations' = update_vacation_approval(id, approved)
          /\ Continue(p, [t EXCEPT !.pc = "delete",
                            !.local = IF id \in DOMAIN vacations
                                      THEN PyObj(VacationIn(vacations', id))
                                      ELSE PyNone])
  /\ awaiting' = awaiting \cup BucketListMembers
  /\ budget' = budget - 1
  /\ UNCHANGED <<employees, employee_seq, vacation_seq, redis, redis_up>>

update_vacation_approval_endpoint_delete(p) ==
  /\ At(p, "update_vacation_approval_endpoint", "delete")
  /\ IF ~redis_up
     THEN Finish(p, Raise(task[p], "RedisError")) /\ UNCHANGED redis
     ELSE /\ redis' = RedisDelete(task[p].key)
          /\ Finish(p, Return(task[p], task[p].local))
  /\ UNCHANGED <<db, redis_up, awaiting, budget>>

delete_vacation_endpoint_db(p) ==
  /\ Free(p)
  /\ \E id \in VacationIds :
       LET t == Enter("delete_vacation_endpoint", [NoArg EXCEPT !.id = id],
                      get_vacation_cache_key(id))
       IN /\ vacations' = delete_vacation(id)
          /\ Continue(p, [t EXCEPT !.pc = "delete"])
  /\ awaiting' = awaiting \cup BucketListMembers
  /\ budget' = budget - 1
  /\ UNCHANGED <<employees, employee_seq, vacation_seq, redis, redis_up>>

delete_vacation_endpoint_delete(p) ==
  /\ At(p, "delete_vacation_endpoint", "delete")
  /\ IF ~redis_up
     THEN Finish(p, Raise(task[p], "RedisError")) /\ UNCHANGED redis
     ELSE /\ redis' = RedisDelete(task[p].key)
          /\ Finish(p, Return(task[p], PyNone))
  /\ UNCHANGED <<db, redis_up, awaiting, budget>>

\* ------------------------------------------------------------- environment
\* the store drops a key whose TTL has run out
redis_ttl_expiry ==
  /\ \E k \in DOMAIN redis :
       /\ redis[k].ex > 0
       /\ redis' = RedisDelete(k)
  /\ last' = [NoEvent EXCEPT !.op = "expiry"]
  /\ UNCHANGED <<db, redis_up, task, awaiting, budget>>

\* ---------------------------------------------------------- specifications
Handler(p) ==
  \/ create_employee_endpoint(p)
  \/ get_employees_endpoint_get(p)
  \/ get_employees_endpoint_fetch(p)
  \/ get_employees_endpoint_set(p)
  \/ patch_employee_endpoint_delete(p)
  \/ patch_employee_endpoint_update(p)
  \/ get_vacations_for_employee_endpoint(p)
  \/ get_employee_endpoint_get(p)
  \/ get_employee_endpoint_fetch(p)
  \/ get_employee_endpoint_set(p)
  \/ delete_employee_endpoint_delete(p)
  \/ delete_employee_endpoint_db(p)
  \/ get_vacations_endpoint_get(p)
  \/ get_vacations_endpoint_fetch(p)
  \/ get_vacations_endpoint_hset(p)
  \/ get_vacations_endpoint_expire(p)
  \/ get_pending_vacations_endpoint_get(p)
  \/ get_pending_vacations_endpoint_fetch(p)
  \/ get_pending_vacations_endpoint_hset(p)
  \/ get_pending_vacations_endpoint_expire(p)
  \/ get_vacation_endpoint_get(p)
  \/ get_vacation_endpoint_fetch(p)
  \/ get_vacation_endpoint_hset(p)
  \/ get_vacation_endpoint_expire(p)
  \/ create_vacation_endpoint_create(p)
  \/ create_vacation_endpoint_delete(p)
  \/ vacation_request_endpoint_create(p)
  \/ vacation_request_endpoint_delete(p)
  \/ update_vacation_approval_endpoint_update(p)
  \/ update_vacation_approval_endpoint_delete(p)
  \/ delete_vacation_endpoint_db(p)
  \/ delete_vacation_endpoint_delete(p)

\* requests interleaved at every await point
Init == Start /\ budget = MaxInterleaved

Next == (\E p \in Tasks : Handler(p)) \/ redis_ttl_expiry

Spec == Init /\ [][Next]_vars

\* the event loop resumes every request that is past an await, and the store
\* drops every key whose TTL has run out
Resume(p) == InFlight(p) /\ Handler(p)

SpecFair ==
  /\ Init
  /\ [][Next]_vars
  /\ \A p \in Tasks : WF_vars(Resume(p))
  /\ WF_vars(redis_ttl_expiry)

\* requests one at a time
InitSeq == Start /\ budget = MaxRequests

NextSeq == Handler("r1") \/ redis_ttl_expiry

SpecSeq == InitSeq /\ [][NextSeq]_vars

\* a tick of the store's clock: every running TTL loses one unit and the keys
\* on their last unit are dropped
tick ==
  /\ \E k \in DOMAIN redis : redis[k].ex > 0
  /\ redis' = [k \in {j \in DOMAIN redis : redis[j].ex # 1} |->
                 IF redis[k].ex > 1 THEN [redis[k] EXCEPT !.ex = @ - 1] ELSE redis[k]]
  /\ last' = IF \E k \in DOMAIN redis : redis[k].ex = 1
             THEN [NoEvent EXCEPT !.op = "expiry"]
             ELSE last
  /\ UNCHANGED <<db, redis_up, task, awaiting, budget>>

\* requests one at a time, against the store's clock
InitTTL == Start /\ budget = MaxTimedRequests

NextTTL == Handler("r1") \/ tick

SpecTTL == InitTTL /\ [][NextTTL]_vars

\* requests one at a time, over a store in which another writer has left
\* bytes that are no JSON text under one of the keys the read handlers look up
LookupKeys ==
  {get_employee_cache_key(i) : i \in EmployeeIds}
  \cup {employee_list_cache_key(pg[1], pg[2]) : pg \in Pages}
  \cup {get_vacation_cache_key(i) : i \in VacationIds}
  \cup ListKeys

InitMalformed ==
  /\ employees = (1 :> "a")
  /\ employee_seq = 1
  /\ vacations = (1 :> [employee_id |-> 1, approved |-> "none"])
  /\ vacation_seq = 1
  /\ \E k \in LookupKeys :
       redis = (k :> [t |-> "string", v |-> Malformed, h |-> NoEntry, ex |-> CACHE_EXPIRATION_TIME])
  /\ redis_up \in BOOLEAN
  /\ task = [p \in Tasks |-> Idle]
  /\ last = NoEvent
  /\ awaiting = {}
  /\ budget = MaxAfterMalformed

SpecMalformed == InitMalformed /\ [][NextSeq]_vars

\* ----------------------------------------------------------- key derivation
\* ids, offsets and limits with one and two digits
KeyInts == {0, 1, MaxKeyInt, MaxKeyInt + 1}

KeyedOps ==
  {"get_employee_endpoint", "get_employees_endpoint", "get_vacation_endpoint",
   "get_vacations_endpoint", "get_pending_vacations_endpoint"}

\* the parameters each keyed handler derives its key from
Queries ==
  {[op |-> "get_employee_endpoint", arg |-> [NoArg EXCEPT !.id = i]] : i \in KeyInts}
  \cup {[op |-> "get_vacation_endpoint", arg |-> [NoArg EXCEPT !.id = i]] : i \in KeyInts}
  \cup {[op |-> "get_employees_endpoint", arg |-> [NoArg EXCEPT !.skip = s, !.limit = l]] :
          s \in KeyInts, l \in KeyInts}
  \cup {[op |-> "get_pending_vacations_endpoint",
          arg |-> [NoArg EXCEPT !.skip = s, !.limit = l]] : s \in KeyInts, l \in KeyInts}
  \cup UNION {{[op |-> "get_vacations_endpoint",
                 arg |-> [NoArg EXCEPT !.approved = a, !.skip = s, !.limit = l]] :
                 s \in KeyInts, l \in KeyInts} : a \in Approvals}

\* cache_key as each keyed handler computes it
cache_key(op, arg) ==
  CASE op = "get_employee_endpoint" -> get_employee_cache_key(arg.id)
    [] op = "get_employees_endpoint" -> employee_list_cache_key(arg.skip, arg.limit)
    [] op = "get_vacation_endpoint" -> get_vacation_cache_key(arg.id)
    [] op = "get_vacations_endpoint" ->
         get_vacation_list_cache_key(arg.approved, arg.skip, arg.limit)
    [] op = "get_pending_vacations_endpoint" ->
         get_vacation_pending_list_cache_key(arg.skip, arg.limit)

\* two requests, each about to derive the key of its query
InitKeys ==
  /\ employees = (1 :> "a")
  /\ employee_seq = 1
  /\ vacations = (1 :> [employee_id |-> 1, approved |-> "none"])
  /\ vacation_seq = 1
  /\ redis = NoEntry
  /\ redis_up = TRUE
  /\ last = NoEvent
  /\ awaiting = {}
  /\ budget = 0
  /\ \E q1 \in Queries, q2 \in Queries :
       task = ("r1" :> [Idle EXCEPT !.op = q1.op, !.arg = q1.arg, !.pc = "key"])
              @@ ("r2" :> [Idle EXCEPT !.op = q2.op, !.arg = q2.arg, !.pc = "key"])

derive_cache_key(p) ==
  /\ task[p].pc = "key"
  /\ task' = [task EXCEPT ![p].key = cache_key(task[p].op, task[p].arg),
                          ![p].pc = "keyed"]
  /\ UNCHANGED <<db, redis, redis_up, last, awaiting, budget>>

NextKeys == \E p \in Tasks : derive_cache_key(p)

SpecKeys == InitKeys /\ [][NextKeys]_vars

\* ------------------------------------------------------------------ claims
EmployeeWrites == {"patch_employee_endpoint", "delete_employee_endpoint"}
VacationWrites ==
  {"create_vacation_endpoint", "vacation_request_endpoint",
   "update_vacation_approval_endpoint", "delete_vacation_endpoint"}
EmployeeReads == {"get_employee_endpoint", "get_employees_endpoint"}
VacationReads ==
  {"get_vacation_endpoint", "get_vacations_endpoint", "get_pending_vacations_endpoint"}
ListReads == {"get_vacations_endpoint", "get_pending_vacations_endpoint"}

NoWriteInProgress ==
  \A p \in Tasks : InFlight(p) => task[p].op \notin EmployeeWrites \cup VacationWrites

\* this step accepts a new request into slot p
Entered(p) ==
  /\ budget' = budget - 1
  /\ \A q \in Tasks \ {p} : task'[q] = task[q]

\* the value the source of record holds for the query of task record t
Fresh(t) ==
  CASE t.op = "get_employee_endpoint" -> get_employee(t.arg.id)
    [] t.op = "get_employees_endpoint" -> get_employees(t.arg.skip, t.arg.limit)
    [] t.op = "get_vacation_endpoint" -> get_vacation(t.arg.id)
    [] t.op = "get_vacations_endpoint" ->
         get_vacations(t.arg.approved, t.arg.skip, t.arg.limit)
    [] t.op = "get_pending_vacations_endpoint" ->
         get_pending_vacations(t.arg.skip, t.arg.limit)

\* C1 (as stated): whenever no write request is in progress, the entry under
\* the scalar key of an employee id or a vacation id is absent or equal to
\* the current source-of-record value of that entity.
C1_NoStaleScalarEntry ==
  NoWriteInProgress =>
    /\ \A i \in EmployeeIds :
         get_employee_cache_key(i) \in DOMAIN redis =>
           loads(RedisGet(get_employee_cache_key(i))) = get_employee(i)
    /\ \A v \in VacationIds :
         get_vacation_cache_key(v) \in DOMAIN redis =>
           loads(RedisGet(get_vacation_cache_key(v))) = get_vacation(v)

\* C1 (amended): with requests one at a time and no write in progress, a
\* cached employee entry carries the id and the name of the current row (its
\* embedded vacations may be stale), no vacation id has a top-level scalar
\* key, and right after a completed employee patch or delete the scalar key
\* of that employee is absent.
C1_SequentialNoStaleEmployeeRow ==
  NoWriteInProgress =>
    /\ \A i \in EmployeeIds :
         get_employee_cache_key(i) \in DOMAIN redis =>
           /\ i \in DOMAIN employees
           /\ loads(RedisGet(get_employee_cache_key(i))).kind = "obj"
           /\ loads(RedisGet(get_employee_cache_key(i))).val[1].id = i
           /\ loads(RedisGet(get_employee_cache_key(i))).val[1].name = employees[i]
    /\ \A v \in VacationIds : get_vacation_cache_key(v) \notin DOMAIN redis
    /\ \A p \in Tasks :
         (task[p].pc = "done" /\ task[p].op \in EmployeeWrites /\ task[p].out = "return")
           => task[p].key \notin DOMAIN redis

\* an employee that was cached and then deleted: the row and the key are gone
C1_Witness ==
  /\ task["r1"].pc = "done"
  /\ task["r1"].op = "delete_employee_endpoint"
  /\ task["r1"].out = "return"
  /\ task["r1"].arg.id \notin DOMAIN employees
  /\ task["r1"].arg.id <= employee_seq
  /\ employee_list_cache_key(0, 1) \in DOMAIN redis
  /\ task["r1"].key \notin DOMAIN redis

\* C2: with requests one at a time, the read-by-id that follows a completed
\* write on the same id takes the miss path (it goes on to the fetch).
C2_ReadAfterWriteFetches ==
  [][\A p \in Tasks :
       ( /\ Entered(p)
         /\ task'[p].op \in {"get_employee_endpoint", "get_vacation_endpoint"}
         /\ last.op \in EmployeeWrites \cup
              {"update_vacation_approval_endpoint", "delete_vacation_endpoint"}
         /\ last.out = "return"
         /\ last.key = task'[p].key )
       => (task'[p].pc = "fetch" /\ task'[p].source # "cache")]_vars

\* a read of employee i on its way to the fetch right after a patch of i
C2_Witness ==
  /\ task["r1"].op = "get_employee_endpoint"
  /\ task["r1"].pc = "fetch"
  /\ last.op = "patch_employee_endpoint"
  /\ last.out = "return"
  /\ last.key = task["r1"].key
  /\ task["r1"].arg.id \in DOMAIN employees

\* C3: after a vacation write endpoint completes, the scalar key of the
\* affected vacation id (when there is one) and the bucket MAIN_KEY are both
\* absent from the store.
C3_VacationWriteClearsKeyAndBucket ==
  \A p \in Tasks :
    ( /\ task[p].pc = "done"
      /\ task[p].op \in VacationWrites
      /\ task[p].out = "return"
      /\ last = Event(task[p]) )
    => /\ MAIN_KEY \notin DOMAIN redis
       /\ get_vacation_cache_key(task[p].arg.id) \notin DOMAIN redis

\* C4: a list or pending-list query that was populated before a vacation
\* mutation is a miss on its next read: the read goes to the fetch and
\* returns what the fetch gave.
C4_PopulatedListsMissAfterMutation ==
  \A p \in Tasks :
    (task[p].op \in ListReads /\ task[p].must_miss /\ task[p].out # "RedisError")
    => /\ task[p].source # "cache"
       /\ task[p].pc = "done" => (task[p].source = "db" /\ task[p].result = task[p].local)

\* two list queries were populated, a vacation was then decided, one of the
\* queries has been read again from the source and the other still waits
C4_Witness ==
  /\ task["r1"].pc = "done"
  /\ task["r1"].op \in ListReads
  /\ task["r1"].must_miss
  /\ task["r1"].source = "db"
  /\ task["r1"].out = "return"
  /\ awaiting # {}

\* C5: employee reads are read-through.  A read that took the miss path
\* returns the source-of-record value, performs exactly one store set and
\* leaves that value under its key; the read of the same key that directly
\* follows such a read returns the same value from the cache, without a fetch
\* and without touching the store.
C5_EmployeeReadThrough ==
  [][\A p \in Tasks :
       /\ ( /\ task[p].op \in EmployeeReads
            /\ task[p].pc = "set"
            /\ task'[p].pc = "done"
            /\ task'[p].out = "return" )
          => /\ task'[p].result = Fresh(task[p])
             /\ task'[p].sets = 1
             /\ task[p].sets = 0
             /\ task[p].key \in DOMAIN redis'
             /\ redis'[task[p].key].t = "string"
             /\ loads(redis'[task[p].key].v) = task'[p].result
             /\ redis'[task[p].key].ex = CACHE_EXPIRATION_TIME
       /\ ( /\ Entered(p)
            /\ task'[p].op \in EmployeeReads
            /\ last.op = task'[p].op
            /\ last.key = task'[p].key
            /\ last.out = "return"
            /\ last.source = "db" )
          => /\ task'[p].pc = "done"
             /\ task'[p].out = "return"
             /\ task'[p].source = "cache"
             /\ task'[p].result = Fresh(task'[p])
             /\ task'[p].sets = 0
             /\ redis' = redis]_vars

\* a second read of an employee served from the cache with the current value
C5_Witness ==
  /\ task["r1"].pc = "done"
  /\ task["r1"].op = "get_employee_endpoint"
  /\ task["r1"].source = "cache"
  /\ task["r1"].out = "return"
  /\ last = Event(task["r1"])
  /\ task["r1"].result = get_employee(task["r1"].arg.id)
  /\ employee_list_cache_key(0, 1) \in DOMAIN redis

\* C6: vacation reads are read-through: a vacation read that directly
\* follows a completed read with the same parameters finds the populated
\* entry, so it never goes on to the fetch.
C6_VacationSecondReadHits ==
  \A p \in Tasks :
    ~ ( /\ task[p].op \in VacationReads
        /\ task[p].pc = "fetch"
        /\ last.op = task[p].op
        /\ last.key = task[p].key
        /\ last.out = "return"
        /\ last.source = "db" )

\* C7: with the store failing on every operation, every cached read
\* endpoint still ends by returning the source-of-record value, never with
\* the store's error.
C7_ReadsSurviveStoreFailure ==
  \A p \in Tasks :
    (~redis_up /\ task[p].pc = "done" /\ task[p].op \in EmployeeReads \cup VacationReads)
    => /\ task[p].out # "RedisError"
       /\ Truthy(Fresh(task[p])) => (task[p].out = "return" /\ task[p].result = Fresh(task[p]))

\* C8: a store failure during invalidation never aborts a write request:
\* no employee or vacation write endpoint ends with the store's error.
C8_WritesSurviveStoreFailure ==
  \A p \in Tasks :
    (task[p].pc = "done" /\ task[p].op \in EmployeeWrites \cup VacationWrites)
    => task[p].out # "RedisError"

\* C9: a read-by-id whose fetch finds no entity ends there, as not found
\* (or with get_employee's validation error), having performed no store
\* write; this holds with requests interleaved too.
C9_NotFoundNeverPopulates ==
  \A p \in Tasks :
    ( /\ task[p].op \in {"get_employee_endpoint", "get_vacation_endpoint"}
      /\ task[p].source = "db"
      /\ task[p].local.kind \in {"None", "ValidationError"} )
    => /\ task[p].pc = "done"
       /\ task[p].out \in {"HTTP404", "ValidationError"}
       /\ task[p].sets = 0

\* a read of a vacation id absent from the source ended as not found, while
\* the bucket holds members that earlier reads populated
C9_Witness ==
  /\ task["r1"].pc = "done"
  /\ task["r1"].op = "get_vacation_endpoint"
  /\ task["r1"].out = "HTTP404"
  /\ task["r1"].sets = 0
  /\ MAIN_KEY \in DOMAIN redis

\* C10: an employee read, patch or delete addressed to an id that no
\* employee has (or ever had) ends with 'Employee not found'.
C10_AbsentEmployeeIsNotFound ==
  \A p \in Tasks :
    ( /\ task[p].pc = "done"
      /\ task[p].op \in {"get_employee_endpoint", "patch_employee_endpoint",
                         "delete_employee_endpoint"}
      /\ task[p].arg.id > employee_seq
      /\ task[p].out # "RedisError" )
    => task[p].out = "HTTP404"

\* C11: two queries that differ in entity kind, sub-kind or any parameter
\* derive different keys; no pending-list key equals a general list key and
\* no derived key equals the bucket name MAIN_KEY.
C11_KeyDerivationInjective ==
  (task["r1"].pc = "keyed" /\ task["r2"].pc = "keyed") =>
    /\ (task["r1"].op # task["r2"].op \/ task["r1"].arg # task["r2"].arg)
         => task["r1"].key # task["r2"].key
    /\ (task["r1"].op = "get_pending_vacations_endpoint"
          /\ task["r2"].op = "get_vacations_endpoint")
         => task["r1"].key # task["r2"].key
    /\ task["r1"].key # MAIN_KEY
    /\ task["r2"].key # MAIN_KEY

\* both keys derived, for two general list queries that agree on everything
\* but the split of the digits between skip and limit
C11_Witness ==
  /\ task["r1"].pc = "keyed"
  /\ task["r2"].pc = "keyed"
  /\ task["r1"].op = "get_vacations_endpoint"
  /\ task["r2"].op = "get_vacations_endpoint"
  /\ task["r1"].arg.approved = task["r2"].arg.approved
  /\ task["r1"].arg.skip = 1 /\ task["r1"].arg.limit = MaxKeyInt
  /\ task["r2"].arg.skip = MaxKeyInt + 1 /\ task["r2"].arg.limit = 0
  /\ task["r1"].key # task["r2"].key

\* the store entries other than key k are the same before and after the step
OthersUnchanged(k) ==
  /\ DOMAIN redis' \ {k} = DOMAIN redis \ {k}
  /\ \A j \in DOMAIN redis \ {k} : redis'[j] = redis[j]

\* C12: a step of patch_employee_endpoint(i) or delete_employee_endpoint(i)
\* changes no store entry but the scalar key of i, create_employee_endpoint
\* changes none at all, and an employee-list read that finds its entry
\* returns it as stored, whatever the employee table holds by then.
C12_EmployeeWritesTouchOwnKeyOnly ==
  [][\A p \in Tasks :
       /\ (task'[p] # task[p] /\ task'[p].op \in EmployeeWrites)
            => OthersUnchanged(get_employee_cache_key(task'[p].arg.id))
       /\ (task'[p] # task[p] /\ task'[p].op = "create_employee_endpoint")
            => redis' = redis
       /\ ( /\ task'[p] # task[p]
            /\ Entered(p)
            /\ task'[p].op = "get_employees_endpoint"
            /\ task'[p].key \in DOMAIN redis )
            => /\ task'[p].source = "cache"
               /\ task'[p].result = loads(redis[task'[p].key].v)
               /\ redis' = redis]_vars

\* an employee-list read served from the store an employee whose name the
\* table has since changed
C12_Witness ==
  /\ last.op = "get_employees_endpoint"
  /\ last.source = "cache"
  /\ task["r1"].op = "get_employees_endpoint"
  /\ task["r1"].pc = "done"
  /\ Len(task["r1"].result.val) > 0
  /\ task["r1"].result.val[1].id \in DOMAIN employees
  /\ task["r1"].result.val[1].name # employees[task["r1"].result.val[1].id]

\* the write request of task record t has got past its redis.delete
StoreDeleteTaken(t) ==
  CASE t.op = "patch_employee_endpoint" ->
         t.pc = "update" \/ (t.pc = "done" /\ t.out # "RedisError")
    [] t.op = "delete_employee_endpoint" ->
         t.pc = "delete" \/ (t.pc = "done" /\ t.out # "RedisError")
    [] t.op \in VacationWrites -> t.pc = "done" /\ t.out # "RedisError"
    [] OTHER -> FALSE

\* the accessor call of the write request of task record t has returned
MutationCompleted(t) ==
  CASE t.op \in EmployeeWrites -> t.pc = "done" /\ t.out # "RedisError"
    [] t.op \in VacationWrites -> t.pc \in {"delete", "done"}
    [] OTHER -> FALSE

\* C13: in every write request (employee patch/delete, vacation
\* create/approve/delete) the store delete is not taken until the accessor's
\* mutation has completed.
C13_MutationBeforeInvalidation ==
  \A p \in Tasks : StoreDeleteTaken(task[p]) => MutationCompleted(task[p])

\* C14: a read request that finds bytes it cannot decode under its key goes
\* on to the fetch as on a miss, and no read ends with the decoder's error.
C14_MalformedIsMiss ==
  [][\A p \in Tasks :
       ( /\ task'[p] # task[p]
         /\ Entered(p)
         /\ task'[p].op \in EmployeeReads \cup VacationReads
         /\ redis_up
         /\ task'[p].key \in DOMAIN redis
         /\ redis[task'[p].key].v = Malformed )
       => /\ task'[p].pc = "fetch"
          /\ task'[p].out # "JSONDecodeError"]_vars

\* C15: get_vacations_for_employee_endpoint is one fetch and no store
\* operation: its step leaves the store as it is and returns what the
\* source of record holds at that moment, with the store up or down.
C15_SubListNeverCached ==
  [][\A p \in Tasks :
       (task'[p] # task[p] /\ task'[p].op = "get_vacations_for_employee_endpoint")
       => /\ redis' = redis
          /\ task'[p].pc = "done"
          /\ task'[p].out = "return"
          /\ task'[p].source = "db"
          /\ task'[p].sets = 0
          /\ task'[p].result =
               get_vacations_for_employee(task'[p].arg.id, task'[p].arg.skip,
                                          task'[p].arg.limit)]_vars

\* a sub-list read returned the live rows while the store held the same
\* employee with an older copy of them
C15_Witness ==
  /\ last.op = "get_vacations_for_employee_endpoint"
  /\ task["r1"].op = "get_vacations_for_employee_endpoint"
  /\ task["r1"].pc = "done"
  /\ Len(task["r1"].result.val) > 0
  /\ get_employee_cache_key(task["r1"].arg.id) \in DOMAIN redis
  /\ PyList(Page(loads(RedisGet(get_employee_cache_key(task["r1"].arg.id))).val[1].vacations,
                 task["r1"].arg.skip, task["r1"].arg.limit)) # task["r1"].result

\* the key a write request with event or task record e passes to redis.delete
DeletedKey(e) ==
  IF e.op \in {"create_vacation_endpoint", "vacation_request_endpoint"}
  THEN MAIN_KEY
  ELSE e.key

\* this step is the redis.delete of a write request in slot p
DeleteStep(p) ==
  /\ redis_up
  /\ task'[p] # task[p]
  /\ \/ Entered(p) /\ task'[p].op \in EmployeeWrites
     \/ /\ task[p].op \in VacationWrites
        /\ task[p].pc = "delete"
        /\ task'[p].pc = "done"

CachedEntry(t) ==
  IF t.op \in EmployeeReads THEN RedisGet(t.key) ELSE RedisHGet(MAIN_KEY, t.key)

\* the run so far consists of two read requests for the same key
TwoReadsSameKey ==
  /\ redis_up
  /\ budget = MaxInterleaved - 2
  /\ task["r1"].op \in EmployeeReads \cup VacationReads
  /\ task["r1"].op = task["r2"].op
  /\ task["r1"].key = task["r2"].key

EveryEntryHasTTL ==
  \A k \in DOMAIN redis :
    \/ redis[k].ex > 0
    \/ /\ k = MAIN_KEY
       /\ \E p \in Tasks : task[p].op \in VacationReads /\ task[p].pc = "expire"

Bucket == IF MAIN_KEY \in DOMAIN redis THEN redis[MAIN_KEY].h ELSE NoEntry

StoreWritten ==
  \E k \in DOMAIN redis' :
    \/ k \notin DOMAIN redis
    \/ redis'[k].v # redis[k].v
    \/ redis'[k].h # redis[k].h

\* this step takes a key out of the store
StoreRemoved == \E k \in DOMAIN redis : k \notin DOMAIN redis'

\* C20: data is put into the store only by a read request that missed and
\* fetched; a key leaves the store only in a step of a write request or by
\* TTL expiry; a read that hits leaves the store as it is.
C20_EntryLifecycle ==
  [][/\ StoreWritten =>
          \E p \in Tasks :
            /\ task'[p] # task[p]
            /\ task'[p].op \in EmployeeReads \cup VacationReads
            /\ task'[p].source = "db"
            /\ task'[p].sets = task[p].sets + 1
     /\ StoreRemoved =>
          \/ \E p \in Tasks :
               /\ task'[p] # task[p]
               /\ task'[p].op \in EmployeeWrites \cup VacationWrites
          \/ task' = task /\ last'.op = "expiry"
     /\ \A p \in Tasks :
          ( /\ task'[p] # task[p]
            /\ task'[p].op \in EmployeeReads \cup VacationReads
            /\ task'[p].source = "cache" )
          => redis' = redis]_vars

\* an entry that one request's read created on a miss has been removed by
\* the other request's patch of the same employee
C20_Witness ==
  /\ task["r1"].op = "get_employee_endpoint"
  /\ task["r1"].pc = "done"
  /\ task["r1"].source = "db"
  /\ task["r1"].sets = 1
  /\ task["r2"].op = "patch_employee_endpoint"
  /\ task["r2"].pc = "done"
  /\ task["r2"].key = task["r1"].key
  /\ last.op = "patch_employee_endpoint"
  /\ task["r1"].key \notin DOMAIN redis

\* the keys of the employee cache
EmployeeKeys ==
  {get_employee_cache_key(i) : i \in EmployeeIds}
  \cup {employee_list_cache_key(pg[1], pg[2]) : pg \in Pages}

\* C21: no step of a vacation write request (create, request, approve or
\* reject, delete) removes or changes an employee scalar or employee-list
\* entry, and get_employee_endpoint returns the entry it finds as it was
\* stored, with the vacation collection of that time.
C21_VacationWritesLeaveEmployeeCache ==
  [][\A p \in Tasks :
       /\ (task'[p] # task[p] /\ task'[p].op \in VacationWrites)
            => \A k \in EmployeeKeys \cap DOMAIN redis :
                 k \in DOMAIN redis' /\ redis'[k] = redis[k]
       /\ ( /\ task'[p] # task[p]
            /\ Entered(p)
            /\ task'[p].op = "get_employee_endpoint"
            /\ redis_up
            /\ task'[p].key \in DOMAIN redis )
            => /\ task'[p].pc = "done"
               /\ task'[p].out = "return"
               /\ task'[p].source = "cache"
               /\ task'[p].result = loads(redis[task'[p].key].v)
               /\ redis' = redis]_vars

\* get_employee_endpoint served from the store an employee under the current
\* name but with a vacation collection that the table no longer holds
C21_Witness ==
  /\ last.op = "get_employee_endpoint"
  /\ last.source = "cache"
  /\ task["r1"].op = "get_employee_endpoint"
  /\ task["r1"].pc = "done"
  /\ task["r1"].arg.id \in DOMAIN employees
  /\ task["r1"].result.val[1].name = employees[task["r1"].arg.id]
  /\ task["r1"].result.val[1].vacations
       # get_employee(task["r1"].arg.id).val[1].vacations

\* the keys the vacation read handlers derive
VacationKeys == {get_vacation_cache_key(i) : i \in VacationIds} \cup ListKeys

\* C22: the top-level keys of the store are employee scalar keys,
\* employee-list keys and MAIN_KEY only; MAIN_KEY is a hash whose members
\* are the populated vacation-by-id, list and pending-list values; no
\* vacation key exists at top level, where the vacation reads look, so no
\* vacation read is ever answered from the store.
C22_VacationDataOnlyInBucket ==
  /\ DOMAIN redis \subseteq EmployeeKeys \cup {MAIN_KEY}
  /\ \A k \in DOMAIN redis \cap EmployeeKeys : redis[k].t = "string"
  /\ MAIN_KEY \in DOMAIN redis =>
       /\ redis[MAIN_KEY].t = "hash"
       /\ DOMAIN redis[MAIN_KEY].h \subseteq VacationKeys
  /\ \A k \in VacationKeys : k \notin DOMAIN redis /\ ~Truthy(RedisGet(k))
  /\ \A p \in Tasks :
       task[p].op \in VacationReads =>
         /\ task[p].source # "cache"
         /\ task[p].sets > 0 => task[p].key \in VacationKeys

\* the bucket holds a by-id member and a list member, and a vacation read
\* whose member is in the bucket went to the fetch
C22_Witness ==
  /\ MAIN_KEY \in DOMAIN redis
  /\ \E i \in VacationIds : get_vacation_cache_key(i) \in DOMAIN redis[MAIN_KEY].h
  /\ ListKeys \cap DOMAIN redis[MAIN_KEY].h # {}
  /\ \E p \in Tasks :
       /\ task[p].op \in VacationReads
       /\ task[p].pc = "done"
       /\ task[p].source = "db"
       /\ task[p].key \in DOMAIN redis[MAIN_KEY].h

====
